---- MODULE Spec2Model ----
(***************************************************************************)
(* Shisen-sho rule engine (src/src/shisen.rs) and the play loop that drives *)
(* it (src/src/web.rs): board representation, two-bend move search, the     *)
(* solvable-board generator and pair removal.                               *)
(*                                                                          *)
(* Option<T> is modelled as a sequence of length 0 (None) or 1 (Some).      *)
(* Iterators are modelled as the sequence of items they yield, in order.    *)
(* A draw from thread_rng() is a nondeterministic choice of a permutation.  *)
(***************************************************************************)
EXTENDS Integers, Sequences, FiniteSets, TLC

VARIABLES
    args,       \* <<ncol_inner, nrow_inner>> passed to Board::random / Board::empty
    pc,         \* position of the program
    this,       \* the board being built by Board::random, then the played board
    board,      \* shuffle_solvable's working copy
    mv,         \* Option<Move>: the move most recently returned by a search
    sq_select,  \* Option<Square>: ModelPlaying.sq_select
    idx_call,   \* the last board[sq] / board[sq] = cell of a caller, or None:
                \* its coordinate, and the cell read (None for a write)
    applied,    \* history: the moves shuffle_solvable has applied to its
                \* working copy, in order (kept until play starts)
    ui          \* the Seed application around the model:
                \*   view       which Model's view() is on screen
                \*   pending    messages registered with after_next_render
                \*   asset      the Asset::load command of init is in flight
                \*   path_timer ModelPlaying.path_timer

vars == <<args, pc, this, board, mv, sq_select, idx_call, applied, ui>>

(***************************************************************************)
(* Bounds of the model.                                                     *)
(***************************************************************************)
\* Largest inner dimension (columns or rows) given to Board::random.
MaxInner == 3

\* Largest number of interior cells (ncol_inner * nrow_inner).
MaxCells == 6

\* Number of tile kinds.  The program sets 34 (src/src/shisen.rs:9); the model
\* scales it down so that interiors with more than 2 * TILE_KIND_COUNT cells
\* (a kind occurring four times, q >= 1 in Board::random) are within reach.
TILE_KIND_COUNT == 2

\* Number of tile kinds of the build played with pairs only (specification
\* SpecPairs).  The program sets 34 (src/src/shisen.rs:9), more than half
\* the 8 x 7 = 56 cells of the application's board; the model scales it
\* down to the least count that is more than half of MaxCells, so that on
\* every interior within the bounds q = 0 and r = n_inner in Board::random:
\* the kinds are drawn by the shuffle and each occurs twice.
PAIRS_TILE_KIND_COUNT == 4

\* Timer messages for which the path of the last move stays on screen.  The
\* program sets path_timer to 30 (src/src/web.rs:195); the model scales it
\* down, keeping both a decrement above zero and the decrement to zero.
PathFrames == 2

(***************************************************************************)
(* Small helpers.                                                           *)
(***************************************************************************)
None == <<>>

Some(x) == <<x>>

Max2(a, b) == IF a >= b THEN a ELSE b

Min2(a, b) == IF a <= b THEN a ELSE b

AbsDiff(a, b) == IF a >= b THEN a - b ELSE b - a

SetMax(S) == CHOOSE x \in S : \A y \in S : y <= x

SetMin(S) == CHOOSE x \in S : \A y \in S : x <= y

\* The items of lo..=hi in ascending order (empty when lo > hi).
RangeSeq(lo, hi) ==
    IF hi < lo THEN <<>> ELSE [i \in 1..(hi - lo + 1) |-> lo + i - 1]

\* Iterator::next on the sequence of remaining items.
Next1(s) == IF s = <<>> THEN None ELSE Some(Head(s))

RECURSIVE SumSeq(_)
SumSeq(s) == IF s = <<>> THEN 0 ELSE Head(s) + SumSeq(Tail(s))

RECURSIVE Concat(_)
Concat(ss) == IF ss = <<>> THEN <<>> ELSE Head(ss) \o Concat(Tail(ss))

(***************************************************************************)
(* Square, BoardCell.                                                       *)
(***************************************************************************)
Square(c, r) == [c |-> c, r |-> r]

Empty == <<"Empty">>

Tile(kind) == <<"Tile", kind>>

cell_is_empty(cell) == cell = Empty

is_tile(cell) == Len(cell) = 2

\* Equality of cells, which also holds of two Empty cells.
is_same_tile_any_equal(a, b) == a = b

is_same_tile(a, b) == is_tile(a) /\ is_tile(b) /\ a[2] = b[2]

(***************************************************************************)
(* Board: [ncol, nrow, cells]; cells is row-major, cells[i + 1] is the      *)
(* Rust cells[i].                                                           *)
(***************************************************************************)
cr2idx(b, c, r) == b.ncol * r + c

sq2idx(b, sq) == cr2idx(b, sq.c, sq.r)

index(b, sq) == b.cells[sq2idx(b, sq) + 1]

index_mut(b, sq, cell) == [b EXCEPT !.cells[sq2idx(b, sq) + 1] = cell]

\* Both dimensions required to be even.
empty_accepts_both_even(ncol_inner, nrow_inner) ==
    ncol_inner % 2 = 0 /\ nrow_inner % 2 = 0

\* The assertion of Board::empty.
empty_accepts(ncol_inner, nrow_inner) == ncol_inner % 2 = 0 \/ nrow_inner % 2 = 0

empty(ncol_inner, nrow_inner) ==
    LET ncol == ncol_inner + 2
        nrow == nrow_inner + 2
        n == ncol * nrow
    IN  [ncol |-> ncol, nrow |-> nrow, cells |-> [i \in 1..n |-> Empty]]

squares(b) ==
    [i \in 1..(b.ncol * b.nrow) |-> Square((i - 1) % b.ncol, (i - 1) \div b.ncol)]

\* Interior taken from row 0 and column 0 (the offset of the border left out).
squares_inner_shifted(b) ==
    SelectSeq(squares(b), LAMBDA sq : sq.c \in 0..(b.ncol - 3) /\ sq.r \in 0..(b.nrow - 3))

squares_inner(b) ==
    SelectSeq(squares(b), LAMBDA sq : sq.c \in 1..(b.ncol - 2) /\ sq.r \in 1..(b.nrow - 2))

\* Sequence of <<Square, BoardCell>> for the interior cells that hold a tile.
enumerate_tiles(b) ==
    LET occupied == SelectSeq(squares_inner(b), LAMBDA sq : is_tile(index(b, sq)))
    IN  [i \in 1..Len(occupied) |-> <<occupied[i], index(b, occupied[i])>>]

iter_tiles(b) ==
    LET occ == enumerate_tiles(b)
    IN  [i \in 1..Len(occ) |-> occ[i][2]]

is_empty(b) ==
    LET sqs == squares_inner(b)
    IN  \A i \in 1..Len(sqs) : cell_is_empty(index(b, sqs[i]))

(***************************************************************************)
(* Move: [path |-> sequence of squares].                                    *)
(***************************************************************************)
\* Both corners always pushed, also when src or dst lies on row r.
new_vhv_uncollapsed(src, dst, r) ==
    [path |-> <<src, Square(src.c, r), Square(dst.c, r), dst>>]

new_vhv(src, dst, r) ==
    [path |-> <<src>>
              \o (IF src.r # r THEN <<Square(src.c, r)>> ELSE <<>>)
              \o (IF dst.r # r THEN <<Square(dst.c, r)>> ELSE <<>>)
              \o <<dst>>]

new_hvh(src, dst, c) ==
    [path |-> <<src>>
              \o (IF src.c # c THEN <<Square(c, src.r)>> ELSE <<>>)
              \o (IF dst.c # c THEN <<Square(c, dst.r)>> ELSE <<>>)
              \o <<dst>>]

move_src(m) == m.path[1]

move_dst(m) == m.path[Len(m.path)]

path_distance(m) ==
    SumSeq([i \in 1..(Len(m.path) - 1) |->
               Max2(AbsDiff(m.path[i].c, m.path[i + 1].c),
                    AbsDiff(m.path[i].r, m.path[i + 1].r))])

(***************************************************************************)
(* util::range_intersection, as the pair <<start, end>>.                    *)
(***************************************************************************)
range_intersection(r1, r2) == <<Max2(r1[1], r2[1]), Min2(r1[2], r2[2])>>

(***************************************************************************)
(* Move search between two squares.                                         *)
(***************************************************************************)
\* f_min / f_max of moves_between_vhv: the run of rows reachable from sq
\* along its column without meeting a tile.
vhv_f_min(b, sq) ==
    LET hit == {r \in 0..(sq.r - 1) : is_tile(index(b, Square(sq.c, r)))}
    IN  IF hit = {} THEN 0 ELSE SetMax(hit) + 1

vhv_f_max(b, sq) ==
    LET hit == {r \in (sq.r + 1)..(b.nrow - 1) : is_tile(index(b, Square(sq.c, r)))}
    IN  IF hit = {} THEN b.nrow - 1 ELSE SetMin(hit) - 1

\* The horizontal run between the two columns not examined.
moves_between_vhv_no_run_check(b, src, dst) ==
    IF src.c = dst.c THEN <<>>
    ELSE
        LET r_range == range_intersection(<<vhv_f_min(b, src), vhv_f_max(b, src)>>,
                                          <<vhv_f_min(b, dst), vhv_f_max(b, dst)>>)
            rs == RangeSeq(r_range[1], r_range[2])
        IN  [i \in 1..Len(rs) |-> new_vhv(src, dst, rs[i])]

\* The rows reachable from src taken alone, not intersected with dst's.
moves_between_vhv_src_range_only(b, src, dst) ==
    IF src.c = dst.c THEN <<>>
    ELSE
        LET r_range == <<vhv_f_min(b, src), vhv_f_max(b, src)>>
            c_min == Min2(src.c, dst.c) + 1
            c_max == Max2(src.c, dst.c) - 1
            rs == SelectSeq(RangeSeq(r_range[1], r_range[2]),
                            LAMBDA r : \A c \in c_min..c_max :
                                           cell_is_empty(index(b, Square(c, r))))
        IN  [i \in 1..Len(rs) |-> new_vhv(src, dst, rs[i])]

moves_between_vhv(b, src, dst) ==
    IF src.c = dst.c THEN <<>>
    ELSE
        LET r_range == range_intersection(<<vhv_f_min(b, src), vhv_f_max(b, src)>>,
                                          <<vhv_f_min(b, dst), vhv_f_max(b, dst)>>)
            c_min == Min2(src.c, dst.c) + 1
            c_max == Max2(src.c, dst.c) - 1
            rs == SelectSeq(RangeSeq(r_range[1], r_range[2]),
                            LAMBDA r : \A c \in c_min..c_max :
                                           cell_is_empty(index(b, Square(c, r))))
        IN  [i \in 1..Len(rs) |-> new_vhv(src, dst, rs[i])]

hvh_f_min(b, sq) ==
    LET hit == {c \in 0..(sq.c - 1) : is_tile(index(b, Square(c, sq.r)))}
    IN  IF hit = {} THEN 0 ELSE SetMax(hit) + 1

hvh_f_max(b, sq) ==
    LET hit == {c \in (sq.c + 1)..(b.ncol - 1) : is_tile(index(b, Square(c, sq.r)))}
    IN  IF hit = {} THEN b.ncol - 1 ELSE SetMin(hit) - 1

\* The columns reachable from src taken alone, not intersected with dst's.
moves_between_hvh_src_range_only(b, src, dst) ==
    IF src.r = dst.r THEN <<>>
    ELSE
        LET c_range == <<hvh_f_min(b, src), hvh_f_max(b, src)>>
            r_min == Min2(src.r, dst.r) + 1
            r_max == Max2(src.r, dst.r) - 1
            cs == SelectSeq(RangeSeq(c_range[1], c_range[2]),
                            LAMBDA c : \A r \in r_min..r_max :
                                           cell_is_empty(index(b, Square(c, r))))
        IN  [i \in 1..Len(cs) |-> new_hvh(src, dst, cs[i])]

moves_between_hvh(b, src, dst) ==
    IF src.r = dst.r THEN <<>>
    ELSE
        LET c_range == range_intersection(<<hvh_f_min(b, src), hvh_f_max(b, src)>>,
                                          <<hvh_f_min(b, dst), hvh_f_max(b, dst)>>)
            r_min == Min2(src.r, dst.r) + 1
            r_max == Max2(src.r, dst.r) - 1
            cs == SelectSeq(RangeSeq(c_range[1], c_range[2]),
                            LAMBDA c : \A r \in r_min..r_max :
                                           cell_is_empty(index(b, Square(c, r))))
        IN  [i \in 1..Len(cs) |-> new_hvh(src, dst, cs[i])]

\* All legal moves between src and dst, in enumeration order.
moves_between(b, src, dst) ==
    IF src = dst \/ ~is_same_tile(index(b, src), index(b, dst))
    THEN <<>>
    ELSE moves_between_vhv(b, src, dst) \o moves_between_hvh(b, src, dst)

\* The last move enumerated instead of the first.
find_move_between_last(b, src, dst) ==
    LET ms == moves_between(b, src, dst)
    IN  IF ms = <<>> THEN None ELSE Some(ms[Len(ms)])

find_move_between(b, src, dst) == Next1(moves_between(b, src, dst))

\* The first item enumerated, whatever its key.
shortest_move_between_first(b, src, dst) == Next1(moves_between(b, src, dst))

\* The first item of greatest key instead of least.
shortest_move_between_max(b, src, dst) ==
    LET ms == moves_between(b, src, dst)
    IN  IF ms = <<>> THEN None
        ELSE LET k == CHOOSE i \in 1..Len(ms) :
                          /\ \A j \in 1..Len(ms) : path_distance(ms[i]) >= path_distance(ms[j])
                          /\ \A j \in 1..(i - 1) : path_distance(ms[j]) < path_distance(ms[i])
             IN  Some(ms[k])

\* Iterator::min_by_key: the first item of least key.
shortest_move_between(b, src, dst) ==
    LET ms == moves_between(b, src, dst)
    IN  IF ms = <<>> THEN None
        ELSE LET k == CHOOSE i \in 1..Len(ms) :
                          /\ \A j \in 1..Len(ms) : path_distance(ms[i]) <= path_distance(ms[j])
                          /\ \A j \in 1..(i - 1) : path_distance(ms[j]) > path_distance(ms[i])
             IN  Some(ms[k])

(***************************************************************************)
(* Whole-board searches.                                                    *)
(***************************************************************************)
\* The last item never taken as the second of a pair.
combinations2_skip_last(s) ==
    Concat([i \in 1..Len(s) |-> [k \in 1..(Len(s) - i - 1) |-> <<s[i], s[i + k]>>]])

\* Itertools::combinations(2): the pairs <<s[i], s[j]>>, i < j, in
\* lexicographic order of <<i, j>>.
combinations2(s) ==
    Concat([i \in 1..Len(s) |-> [k \in 1..(Len(s) - i) |-> <<s[i], s[i + k]>>]])

\* The pairs of neighbours in enumeration order (slice::windows(2)).
windows2(s) == [i \in 1..(Len(s) - 1) |-> <<s[i], s[i + 1]>>]

\* The first move of the first pair of `pairs` that has one.
first_move_of(b, pairs) ==
    LET found == SelectSeq(pairs, LAMBDA p : find_move_between(b, p[1], p[2]) # None)
    IN  IF found = <<>> THEN None
        ELSE find_move_between(b, Head(found)[1], Head(found)[2])

\* Only neighbours in enumeration order tried, not every pair.
find_move_windows(b) == first_move_of(b, windows2(squares_inner(b)))

find_move(b) == first_move_of(b, combinations2(squares_inner(b)))

\* Every move a same-kind pair would get if the clearance of the path were
\* not examined.
random_move_unchecked(b) ==
    LET combs == combinations2(squares_inner(b))
        hits == {i \in 1..Len(combs) :
                     is_same_tile(index(b, combs[i][1]), index(b, combs[i][2]))}
    IN  IF hits = {} THEN {None}
        ELSE {Some([path |-> <<combs[i][1], combs[i][2]>>]) : i \in hits}

\* The set of results random_move can return: the pairs are visited in a
\* shuffled order, so any pair with a move can be the first one found.
random_move(b) ==
    LET combs == combinations2(squares_inner(b))
        hits == {i \in 1..Len(combs) :
                     find_move_between(b, combs[i][1], combs[i][2]) # None}
    IN  IF hits = {} THEN {None}
        ELSE {find_move_between(b, combs[i][1], combs[i][2]) : i \in hits}

\* The emptiness of the board not examined.
is_stuck_no_move_only(b) == find_move(b) = None

is_stuck(b) == ~is_empty(b) /\ find_move(b) = None

(***************************************************************************)
(* Mutation.                                                                *)
(***************************************************************************)
\* Only the destination emptied.
do_move_dst_only(b, m) == index_mut(b, move_dst(m), Empty)

\* Only the source emptied.
do_move_src_only(b, m) == index_mut(b, move_src(m), Empty)

\* The tiles of every column dropped to the bottom of the interior, in
\* order, as in the variants of the game played with gravity.
settle(b) ==
    [b EXCEPT !.cells =
        [i \in 1..Len(b.cells) |->
            LET c == (i - 1) % b.ncol
                r == (i - 1) \div b.ncol
                col == [k \in 1..b.nrow |-> b.cells[cr2idx(b, c, k - 1) + 1]]
                tiles == SelectSeq(col, is_tile)
                top == b.nrow - 1 - Len(tiles)
            IN  IF r >= top /\ r <= b.nrow - 2 THEN tiles[r - top + 1] ELSE Empty]]

\* The pair removed, then the tiles above it dropped.
do_move_gravity(b, m) ==
    settle(index_mut(index_mut(b, move_src(m), Empty), move_dst(m), Empty))

do_move(b, m) == index_mut(index_mut(b, move_src(m), Empty), move_dst(m), Empty)

(***************************************************************************)
(* Generator.                                                               *)
(***************************************************************************)
\* The permutations of 1..n, each as a sequence.
Perms(n) == Permutations(1..n)

\* The tiles put back in the order they were collected.
shuffle_identity(b, p) == b

\* The shuffled tiles laid on the first interior squares in enumeration
\* order, whether occupied or not, the other interior squares left Empty.
shuffle_compact(b, p) ==
    LET sqs == squares_inner(b)
        collected == iter_tiles(b)
        n == Len(collected)
        tiles == [i \in 1..n |-> collected[p[i]]]
    IN  [b EXCEPT !.cells =
            [i \in 1..Len(b.cells) |->
                IF \E k \in 1..Len(sqs) : sq2idx(b, sqs[k]) + 1 = i
                THEN LET k == CHOOSE k \in 1..Len(sqs) : sq2idx(b, sqs[k]) + 1 = i
                     IN  IF k <= n THEN tiles[n - k + 1] ELSE Empty
                ELSE b.cells[i]]]

\* Board::shuffle; p is the permutation slice::shuffle applies to `tiles`.
\* The k-th occupied square receives the k-th item popped from the back.
shuffle(b, p) ==
    LET occ == enumerate_tiles(b)
        n == Len(occ)
        collected == iter_tiles(b)
        tiles == [i \in 1..n |-> collected[p[i]]]
    IN  [b EXCEPT !.cells =
            [i \in 1..Len(b.cells) |->
                IF \E k \in 1..n : sq2idx(b, occ[k][1]) + 1 = i
                THEN tiles[n - (CHOOSE k \in 1..n : sq2idx(b, occ[k][1]) + 1 = i) + 1]
                ELSE b.cells[i]]]

\* The whole working copy assigned to self, emptied cells included.
commit_whole_board(self, b) == b

\* Each occupied square of self receives the tile of the next occupied
\* square of the working copy.
commit_shifted(self, b) ==
    LET occ == enumerate_tiles(b)
        n == Len(occ)
    IN  [self EXCEPT !.cells =
            [i \in 1..Len(self.cells) |->
                IF \E k \in 1..n : sq2idx(self, occ[k][1]) + 1 = i
                THEN occ[((CHOOSE k \in 1..n : sq2idx(self, occ[k][1]) + 1 = i) % n) + 1][2]
                ELSE self.cells[i]]]

\* shuffle_solvable's write-back: for (sq, tile) in board.enumerate_tiles().
commit(self, b) ==
    LET occ == enumerate_tiles(b)
    IN  [self EXCEPT !.cells =
            [i \in 1..Len(self.cells) |->
                IF \E k \in 1..Len(occ) : sq2idx(self, occ[k][1]) + 1 = i
                THEN occ[CHOOSE k \in 1..Len(occ) : sq2idx(self, occ[k][1]) + 1 = i][2]
                ELSE self.cells[i]]]

\* Write-back taken before the shuffle instead of after it.
shuffle_commit_stale(self, b, p) == [board |-> shuffle(b, p), this |-> commit(self, b)]

\* One pass of shuffle_solvable's outer loop up to the reduce loop.
shuffle_commit(self, b, p) ==
    LET shuffled == shuffle(b, p)
    IN  [board |-> shuffled, this |-> commit(self, shuffled)]

\* The remainder taken as the first r shuffled kinds, once each.
random_tiles_rest_once(n_inner, xs) ==
    LET q == n_inner \div (2 * TILE_KIND_COUNT)
        r == n_inner % (2 * TILE_KIND_COUNT)
        kinds == [i \in 1..TILE_KIND_COUNT |-> i - 1]
    IN  Concat([i \in 1..(2 * q) |-> kinds]) \o SubSeq(xs, 1, r)

\* The tile multiset of Board::random; xs is the shuffled list of kinds.
random_tiles(n_inner, xs) ==
    LET q == n_inner \div (2 * TILE_KIND_COUNT)
        r == n_inner % (2 * TILE_KIND_COUNT)
        kinds == [i \in 1..TILE_KIND_COUNT |-> i - 1]
        rest == SubSeq(xs, 1, r \div 2)
    IN  Concat([i \in 1..(2 * q) |-> kinds]) \o rest \o rest

\* Board::random up to the call of shuffle_solvable.
random_fill(ncol_inner, nrow_inner, xs) ==
    LET e == empty(ncol_inner, nrow_inner)
        sqs == squares_inner(e)
        tiles == random_tiles(ncol_inner * nrow_inner, xs)
    IN  [e EXCEPT !.cells =
            [i \in 1..Len(e.cells) |->
                IF \E k \in 1..Len(sqs) : sq2idx(e, sqs[k]) + 1 = i
                THEN Tile(tiles[CHOOSE k \in 1..Len(sqs) : sq2idx(e, sqs[k]) + 1 = i])
                ELSE e.cells[i]]]

\* Board::random lines 88-102 in a build whose TILE_KIND_COUNT is kind_count;
\* xs is the shuffled list of the kinds 0..kind_count-1.
random_tiles_in_build(kind_count, n_inner, xs) ==
    LET q == n_inner \div (2 * kind_count)
        r == n_inner % (2 * kind_count)
        kinds == [i \in 1..kind_count |-> i - 1]
        rest == SubSeq(xs, 1, r \div 2)
    IN  Concat([i \in 1..(2 * q) |-> kinds]) \o rest \o rest

\* Board::random up to the call of shuffle_solvable, in that build.
random_fill_in_build(kind_count, ncol_inner, nrow_inner, xs) ==
    LET e == empty(ncol_inner, nrow_inner)
        sqs == squares_inner(e)
        tiles == random_tiles_in_build(kind_count, ncol_inner * nrow_inner, xs)
    IN  [e EXCEPT !.cells =
            [i \in 1..Len(e.cells) |->
                IF \E k \in 1..Len(sqs) : sq2idx(e, sqs[k]) + 1 = i
                THEN Tile(tiles[CHOOSE k \in 1..Len(sqs) : sq2idx(e, sqs[k]) + 1 = i])
                ELSE e.cells[i]]]

(***************************************************************************)
(* Inputs.                                                                  *)
(***************************************************************************)
\* The inner sizes given to Board::random / Board::empty.
Sizes ==
    {sz \in (1..MaxInner) \X (1..MaxInner) : sz[1] * sz[2] <= MaxCells}

\* Value of `this` and `board` before they are constructed.
NoBoard == [ncol |-> 0, nrow |-> 0, cells |-> <<>>]

\* The application when the engine is used on its own: nothing on screen
\* but the loading view, nothing scheduled.
NoUi ==
    [view |-> "Loading", pending |-> {}, asset |-> FALSE,
     path_timer |-> 0, unexpected |-> None]

\* The application where ModelLoading::update has taken Msg::AssetLoad,
\* registered ModelInit for the next render and calls ModelPlaying::new.
UiAtNew == [NoUi EXCEPT !.pending = {"ModelInit"}]

(***************************************************************************)
(* Board::random, step by step.                                             *)
(***************************************************************************)
Init ==
    /\ args \in Sizes
    /\ pc = "start"
    /\ this = NoBoard
    /\ board = NoBoard
    /\ mv = None
    /\ sq_select = None
    /\ idx_call = None
    /\ applied = <<>>
    /\ ui = UiAtNew

\* Board::empty fails its assertion: both inner dimensions are odd.
EmptyPanic ==
    /\ pc = "start"
    /\ ~empty_accepts(args[1], args[2])
    /\ pc' = "panic"
    /\ UNCHANGED <<args, this, board, mv, sq_select, idx_call, applied, ui>>

\* Board::empty returns the all-Empty grid.
EmptyOk ==
    /\ pc = "start"
    /\ empty_accepts(args[1], args[2])
    /\ this' = empty(args[1], args[2])
    /\ pc' = "fill"
    /\ UNCHANGED <<args, board, mv, sq_select, idx_call, applied, ui>>

\* Board::random lines 85-106, then shuffle_solvable's clone of self.
RandomFill ==
    /\ pc = "fill"
    /\ \E p \in Perms(TILE_KIND_COUNT) :
           this' = random_fill(args[1], args[2], [i \in 1..TILE_KIND_COUNT |-> p[i] - 1])
    /\ board' = this'
    /\ pc' = "outer"
    /\ UNCHANGED <<args, mv, sq_select, idx_call, applied, ui>>

\* while !board.is_empty() { board.shuffle(); write back to self; ...
OuterShuffle ==
    /\ pc = "outer"
    /\ ~is_empty(board)
    /\ \E p \in Perms(Len(enumerate_tiles(board))) :
           LET res == shuffle_commit(this, board, p)
           IN  /\ board' = res.board
               /\ this' = res.this
    /\ pc' = "reduce"
    /\ UNCHANGED <<args, mv, sq_select, idx_call, applied, ui>>

\* The working copy is empty: shuffle_solvable and Board::random return.
OuterExit ==
    /\ pc = "outer"
    /\ is_empty(board)
    /\ pc' = "ready"
    /\ UNCHANGED <<args, this, board, mv, sq_select, idx_call, applied, ui>>

\* while let Some(mv) = board.random_move() { board.do_move(&mv); }
ReduceStep ==
    /\ pc = "reduce"
    /\ \E m \in random_move(board) :
           /\ m # None
           /\ mv' = m
           /\ board' = do_move(board, m[1])
           /\ applied' = Append(applied, m[1])
    /\ UNCHANGED <<args, pc, this, sq_select, idx_call, ui>>

ReduceExit ==
    /\ pc = "reduce"
    /\ random_move(board) = {None}
    /\ pc' = "outer"
    /\ UNCHANGED <<args, this, board, mv, sq_select, idx_call, applied, ui>>

(***************************************************************************)
(* The greedy play loop: while let Some(mv) = board.find_move()             *)
(* { board.do_move(&mv); }                                                  *)
(***************************************************************************)
GreedyStep ==
    /\ pc \in {"ready", "greedy"}
    /\ LET found == find_move(this)
       IN  /\ found # None
           /\ mv' = found
           /\ this' = do_move(this, found[1])
    /\ pc' = "greedy"
    /\ applied' = <<>>
    /\ UNCHANGED <<args, board, sq_select, idx_call, ui>>

GreedyStop ==
    /\ pc \in {"ready", "greedy"}
    /\ find_move(this) = None
    /\ pc' = "greedy_done"
    /\ applied' = <<>>
    /\ UNCHANGED <<args, this, board, mv, sq_select, idx_call, ui>>

(***************************************************************************)
(* ModelPlaying::update, Msg::CanvasClick, for a click that                 *)
(* mouse_pos_to_square maps to the square sq of the grid.                   *)
(***************************************************************************)
\* The clear check only: a board without a legal move stays in Playing.
CanvasClick_win_only(sq) ==
    /\ pc \in {"ready", "playing"}
    /\ IF sq_select # None
       THEN LET found == shortest_move_between(this, sq_select[1], sq)
            IN  IF found # None
                THEN /\ this' = do_move(this, found[1])
                     /\ mv' = found
                     /\ sq_select' = None
                     /\ pc' = IF is_empty(this') THEN "win" ELSE "playing"
                     /\ ui' = IF pc' = "playing"
                              THEN [ui EXCEPT !.path_timer = PathFrames,
                                              !.pending = @ \cup {"DrawCanvas"}]
                              ELSE [ui EXCEPT !.path_timer = 0,
                                              !.pending = @ \cup {"ModelInit"}]
                ELSE /\ sq_select' = None
                     /\ pc' = "playing"
                     /\ ui' = [ui EXCEPT !.pending = @ \cup {"DrawCanvas"}]
                     /\ UNCHANGED <<this, mv>>
       ELSE /\ sq_select' = IF is_tile(index(this, sq)) THEN Some(sq) ELSE None
            /\ pc' = "playing"
            /\ ui' = [ui EXCEPT !.pending = @ \cup {"DrawCanvas"}]
            /\ UNCHANGED <<this, mv>>
    /\ applied' = <<>>
    /\ UNCHANGED <<args, board, idx_call>>

CanvasClick(sq) ==
    /\ pc \in {"ready", "playing"}
    /\ IF sq_select # None
       THEN LET found == shortest_move_between(this, sq_select[1], sq)
            IN  IF found # None
                THEN /\ this' = do_move(this, found[1])
                     /\ mv' = found
                     /\ sq_select' = None
                     /\ pc' = IF is_empty(this') THEN "win"
                              ELSE IF is_stuck(this') THEN "stuck"
                              ELSE "playing"
                     /\ ui' = IF pc' = "playing"
                              THEN [ui EXCEPT !.path_timer = PathFrames,
                                              !.pending = @ \cup {"DrawCanvas"}]
                              ELSE [ui EXCEPT !.path_timer = 0,
                                              !.pending = @ \cup {"ModelInit"}]
                ELSE /\ sq_select' = None
                     /\ pc' = "playing"
                     /\ ui' = [ui EXCEPT !.pending = @ \cup {"DrawCanvas"}]
                     /\ UNCHANGED <<this, mv>>
       ELSE /\ sq_select' = IF is_tile(index(this, sq)) THEN Some(sq) ELSE None
            /\ pc' = "playing"
            /\ ui' = [ui EXCEPT !.pending = @ \cup {"DrawCanvas"}]
            /\ UNCHANGED <<this, mv>>
    /\ applied' = <<>>
    /\ UNCHANGED <<args, board, idx_call>>

Click ==
    LET sqs == squares(this)
    IN  \E i \in 1..Len(sqs) : CanvasClick(sqs[i])

Next ==
    \/ EmptyPanic
    \/ EmptyOk
    \/ RandomFill
    \/ OuterShuffle
    \/ OuterExit
    \/ ReduceStep
    \/ ReduceExit
    \/ GreedyStep
    \/ GreedyStop
    \/ Click

Spec == Init /\ [][Next]_vars

(***************************************************************************)
(* The same program built with PAIRS_TILE_KIND_COUNT tile kinds: no         *)
(* interior within the bounds needs a kind more than twice                  *)
(* (n_inner < 2 * kind count, as 8 x 7 = 56 < 2 * 34 in the application),   *)
(* q = 0 in Board::random, and the largest interiors hold three different   *)
(* pairs, drawn by the shuffle of the kinds.                                *)
(***************************************************************************)
\* Board::random lines 85-106 in this build, then shuffle_solvable's clone.
RandomFillPairs ==
    /\ pc = "fill"
    /\ \E p \in Perms(PAIRS_TILE_KIND_COUNT) :
           this' = random_fill_in_build(PAIRS_TILE_KIND_COUNT, args[1], args[2],
                                        [i \in 1..PAIRS_TILE_KIND_COUNT |-> p[i] - 1])
    /\ board' = this'
    /\ pc' = "outer"
    /\ UNCHANGED <<args, mv, sq_select, idx_call, applied, ui>>

NextPairs ==
    \/ EmptyPanic
    \/ EmptyOk
    \/ RandomFillPairs
    \/ OuterShuffle
    \/ OuterExit
    \/ ReduceStep
    \/ ReduceExit
    \/ GreedyStep
    \/ GreedyStop
    \/ Click

SpecPairs == Init /\ [][NextPairs]_vars

(***************************************************************************)
(* The application: Model (Loading, Playing, Win, Stuck) and the messages   *)
(* Seed passes to update.  The runtime is modelled by what the program asks *)
(* of it: init's command and 16 ms stream, after_next_render (the runtime   *)
(* passes the registered messages to update as soon as it has rendered),    *)
(* and the event handlers of the view that is on screen.  The registered    *)
(* messages are kept as the set of their distinct values.                   *)
(***************************************************************************)
\* The variant of Model the program holds; "none" while an update is still
\* running Board::random, and after a panic.
ModelOf(p) ==
    IF p = "loading" THEN "Loading"
    ELSE IF p \in {"ready", "playing"} THEN "Playing"
    ELSE IF p = "win" THEN "Win"
    ELSE IF p = "stuck" THEN "Stuck"
    ELSE "none"

\* The messages each variant's update has a match arm for; every other
\* message reaches `_ => panic!("unexpected message")`.
handles(model) ==
    IF model = "Loading" THEN {"AssetLoad", "Timer"}
    ELSE IF model = "Playing"
         THEN {"Restart", "ModelInit", "Timer", "DrawCanvas", "CanvasClick"}
    ELSE IF model \in {"Win", "Stuck"}
         THEN {"Restart", "ModelInit", "DrawCanvas", "Timer"}
    ELSE {}

\* The messages the runtime can pass to update next: the timer tick, the
\* loaded asset, the messages waiting for the next render, and the events
\* of the view on screen (the Restart button of Playing, Win and Stuck, the
\* click handler of the Playing canvas).
deliverable ==
    {"Timer"}
        \cup (IF ui.asset THEN {"AssetLoad"} ELSE {})
        \cup ui.pending
        \cup (IF ui.view \in {"Playing", "Win", "Stuck"} THEN {"Restart"} ELSE {})
        \cup (IF ui.view = "Playing" THEN {"CanvasClick"} ELSE {})

\* init: Model::new() is Loading, its view is rendered, the asset load is
\* started; NCOL_INNER x NROW_INNER is args.
InitUI ==
    /\ args \in Sizes
    /\ pc = "loading"
    /\ this = NoBoard
    /\ board = NoBoard
    /\ mv = None
    /\ sq_select = None
    /\ idx_call = None
    /\ applied = <<>>
    /\ ui = [NoUi EXCEPT !.asset = TRUE]

\* The runtime renders view(model) and passes the registered messages to
\* update: Msg::ModelInit registers DrawCanvas for the render after this
\* one (the same arm in Playing, Win and Stuck), Msg::DrawCanvas draws and
\* changes nothing of the model.
Render ==
    /\ ModelOf(pc) # "none"
    /\ ui.pending \subseteq handles(ModelOf(pc))
    /\ ui' = [ui EXCEPT !.view = ModelOf(pc),
                        !.pending = IF "ModelInit" \in ui.pending
                                    THEN {"DrawCanvas"} ELSE {}]
    /\ UNCHANGED <<args, pc, this, board, mv, sq_select, idx_call, applied>>

\* ModelLoading::update, Msg::AssetLoad: ModelPlaying::new runs Board::random.
AssetLoad ==
    /\ "AssetLoad" \in deliverable
    /\ pc = "loading"
    /\ pc' = "start"
    /\ ui' = [ui EXCEPT !.asset = FALSE, !.pending = @ \cup {"ModelInit"}]
    /\ UNCHANGED <<args, this, board, mv, sq_select, idx_call, applied>>

\* Board::random returns to ModelPlaying::new / ModelPlaying::restart:
\* sq_select: None, mv_last: None, path_timer: 0; shuffle_solvable's
\* working copy is dropped.
PlayingNew ==
    /\ pc = "outer"
    /\ is_empty(board)
    /\ pc' = "ready"
    /\ board' = NoBoard
    /\ mv' = None
    /\ sq_select' = None
    /\ applied' = <<>>
    /\ ui' = [ui EXCEPT !.path_timer = 0]
    /\ UNCHANGED <<args, this, idx_call>>

\* Msg::Restart: ModelPlaying::restart, or ModelPlaying::new from Win and
\* Stuck; both register ModelInit and run Board::random.
Restart ==
    /\ "Restart" \in deliverable
    /\ ModelOf(pc) \in {"Playing", "Win", "Stuck"}
    /\ pc' = "start"
    /\ this' = NoBoard
    /\ board' = NoBoard
    /\ mv' = None
    /\ sq_select' = None
    /\ applied' = <<>>
    /\ ui' = [ui EXCEPT !.path_timer = 0, !.pending = @ \cup {"ModelInit"}]
    /\ UNCHANGED <<args, idx_call>>

\* Msg::Timer: Playing counts path_timer down and asks for a redraw when it
\* reaches zero; Loading, Win and Stuck ignore it.
Timer ==
    /\ ModelOf(pc) # "none"
    /\ ui' = IF ModelOf(pc) = "Playing" /\ ui.path_timer > 0
             THEN [ui EXCEPT !.path_timer = @ - 1,
                             !.pending = IF ui.path_timer = 1
                                         THEN @ \cup {"DrawCanvas"} ELSE @]
             ELSE ui
    /\ UNCHANGED <<args, pc, this, board, mv, sq_select, idx_call, applied>>

\* A click on the canvas of the Playing view, passed to ModelPlaying::update.
PlayingClick ==
    /\ "CanvasClick" \in deliverable
    /\ Click

\* A deliverable message for which the current variant has no match arm:
\* panic!("unexpected message: {msg:?}").
Unexpected(msg) ==
    /\ msg \in deliverable
    /\ ModelOf(pc) # "none"
    /\ msg \notin handles(ModelOf(pc))
    /\ pc' = "unexpected"
    /\ ui' = [ui EXCEPT !.unexpected = Some([model |-> ModelOf(pc), msg |-> msg])]
    /\ UNCHANGED <<args, this, board, mv, sq_select, idx_call, applied>>

NextUI ==
    \/ Render
    \/ AssetLoad
    \/ Restart
    \/ Timer
    \/ PlayingClick
    \/ \E msg \in deliverable : Unexpected(msg)
    \/ EmptyPanic
    \/ EmptyOk
    \/ RandomFill
    \/ OuterShuffle
    \/ ReduceStep
    \/ ReduceExit
    \/ PlayingNew

SpecUI == InitUI /\ [][NextUI]_vars

(***************************************************************************)
(* Move search on hand-built boards: Board::empty followed by writes of     *)
(* interior cells through IndexMut<Square>.                                 *)
(***************************************************************************)
\* Kinds written to hand-built boards.  The search compares kinds for
\* equality only, so two kinds give every same-kind / different-kind pattern
\* a pair of squares can show.
HandKinds == {0, 1}

Cells == {Empty} \cup {Tile(k) : k \in HandKinds}

\* The board obtained from Board::empty by writing content[k] to the k-th
\* interior square.
hand_built(ncol_inner, nrow_inner, content) ==
    LET e == empty(ncol_inner, nrow_inner)
        sqs == squares_inner(e)
    IN  [e EXCEPT !.cells =
            [i \in 1..Len(e.cells) |->
                IF \E k \in 1..Len(sqs) : sq2idx(e, sqs[k]) + 1 = i
                THEN content[CHOOSE k \in 1..Len(sqs) : sq2idx(e, sqs[k]) + 1 = i]
                ELSE e.cells[i]]]

InitSearch ==
    /\ args \in {sz \in Sizes : empty_accepts(sz[1], sz[2])}
    /\ pc = "hand"
    /\ \E content \in [1..(args[1] * args[2]) -> Cells] :
           this = hand_built(args[1], args[2], content)
    /\ board = NoBoard
    /\ mv = None
    /\ sq_select = None
    /\ idx_call = None
    /\ applied = <<>>
    /\ ui = NoUi

CallFindMoveBetween(src, dst) ==
    /\ pc = "hand"
    /\ mv' = find_move_between(this, src, dst)
    /\ pc' = "searched"
    /\ UNCHANGED <<args, this, board, sq_select, idx_call, applied, ui>>

CallShortestMoveBetween(src, dst) ==
    /\ pc = "hand"
    /\ mv' = shortest_move_between(this, src, dst)
    /\ pc' = "searched"
    /\ UNCHANGED <<args, this, board, sq_select, idx_call, applied, ui>>

CallFindMove ==
    /\ pc = "hand"
    /\ mv' = find_move(this)
    /\ pc' = "searched"
    /\ UNCHANGED <<args, this, board, sq_select, idx_call, applied, ui>>

CallRandomMove ==
    /\ pc = "hand"
    /\ mv' \in random_move(this)
    /\ pc' = "searched"
    /\ UNCHANGED <<args, this, board, sq_select, idx_call, applied, ui>>

\* do_move with the move just computed on this board.
CallDoMove ==
    /\ pc = "searched"
    /\ mv # None
    /\ this' = do_move(this, mv[1])
    /\ pc' = "moved"
    /\ UNCHANGED <<args, board, mv, sq_select, idx_call, applied, ui>>

\* The caller lets go of the search result.
DropMove ==
    /\ pc \in {"searched", "moved"}
    /\ mv' = None
    /\ pc' = "hand"
    /\ UNCHANGED <<args, this, board, sq_select, idx_call, applied, ui>>

NextSearch ==
    \/ LET sqs == squares_inner(this)
       IN  \E i, j \in 1..Len(sqs) : CallFindMoveBetween(sqs[i], sqs[j])
    \/ LET sqs == squares_inner(this)
       IN  \E i, j \in 1..Len(sqs) : CallShortestMoveBetween(sqs[i], sqs[j])
    \/ CallFindMove
    \/ CallRandomMove
    \/ CallDoMove
    \/ DropMove

SpecSearch == InitSearch /\ [][NextSearch]_vars

(***************************************************************************)
(* Index<Square> / IndexMut<Square> called by a user of Board with any      *)
(* coordinate: Square's fields are public and unchecked.                    *)
(***************************************************************************)
\* Vec's bounds check on cells[idx].
index_panics(b, sq) == sq2idx(b, sq) >= Len(b.cells)

\* The coordinates a caller passes: the grid and one column and one row
\* beyond it.
CallerSquares(b) == {Square(c, r) : c \in 0..b.ncol, r \in 0..b.nrow}

\* let cell = board[sq];
CallIndex(sq) ==
    /\ pc = "hand"
    /\ IF index_panics(this, sq)
       THEN /\ pc' = "panic"
            /\ idx_call' = Some([sq |-> sq, cell |-> None])
       ELSE /\ pc' = "indexed"
            /\ idx_call' = Some([sq |-> sq, cell |-> Some(index(this, sq))])
    /\ UNCHANGED <<args, this, board, mv, sq_select, applied, ui>>

\* board[sq] = cell;
CallIndexMut(sq, cell) ==
    /\ pc = "hand"
    /\ IF index_panics(this, sq)
       THEN /\ pc' = "panic"
            /\ UNCHANGED this
       ELSE /\ pc' = "written"
            /\ this' = index_mut(this, sq, cell)
    /\ idx_call' = Some([sq |-> sq, cell |-> None])
    /\ UNCHANGED <<args, board, mv, sq_select, applied, ui>>

NextIndex ==
    \/ \E sq \in CallerSquares(this) : CallIndex(sq)
    \/ \E sq \in CallerSquares(this), cell \in Cells : CallIndexMut(sq, cell)

SpecIndex == InitSearch /\ [][NextIndex]_vars

(***************************************************************************)
(* Vocabulary of the properties, stated without the search's own helpers.   *)
(***************************************************************************)
Grid(b) == {squares(b)[i] : i \in 1..Len(squares(b))}

Interior(b) == {sq \in Grid(b) : sq.c \in 1..(b.ncol - 2) /\ sq.r \in 1..(b.nrow - 2)}

Border(b) == Grid(b) \ Interior(b)

CellAt(b, sq) == b.cells[b.ncol * sq.r + sq.c + 1]

HoldsTile(b, sq) == CellAt(b, sq) # Empty

SameKind(b, p, q) == HoldsTile(b, p) /\ HoldsTile(b, q) /\ CellAt(b, p) = CellAt(b, q)

TileCount(b) == Cardinality({sq \in Grid(b) : HoldsTile(b, sq)})

\* "H", "V" for a segment along a row or a column, "none" otherwise
\* (equal points, or points differing in both axes).
Axis(p, q) ==
    IF p.r = q.r /\ p.c # q.c THEN "H"
    ELSE IF p.c = q.c /\ p.r # q.r THEN "V"
    ELSE "none"

\* The squares of the segment from p to q, both ends included.
SegmentCells(p, q) ==
    {Square(c, r) : c \in Min2(p.c, q.c)..Max2(p.c, q.c),
                    r \in Min2(p.r, q.r)..Max2(p.r, q.r)}

PathCells(path) ==
    UNION {SegmentCells(path[i], path[i + 1]) : i \in 1..(Len(path) - 1)}

\* Every square the path passes through, its two ends excepted, is Empty.
PathClear(b, path) ==
    \A sq \in PathCells(path) \ {path[1], path[Len(path)]} :
        sq \in Grid(b) /\ ~HoldsTile(b, sq)

\* 2 to 4 points, segments along one axis each, consecutive segments at a
\* right angle.
WellFormedPath(path) ==
    /\ Len(path) \in 2..4
    /\ \A i \in 1..(Len(path) - 1) : Axis(path[i], path[i + 1]) # "none"
    /\ \A i \in 1..(Len(path) - 2) :
           Axis(path[i], path[i + 1]) # Axis(path[i + 1], path[i + 2])

Bends(path) ==
    Cardinality({i \in 1..(Len(path) - 2) :
                     Axis(path[i], path[i + 1]) # Axis(path[i + 1], path[i + 2])})

\* Some path of at most three segments inside the grid joins src to dst over
\* Empty cells only.
ConnectingPath(b, src, dst) ==
    \/ WellFormedPath(<<src, dst>>) /\ PathClear(b, <<src, dst>>)
    \/ \E p \in Grid(b) :
           WellFormedPath(<<src, p, dst>>) /\ PathClear(b, <<src, p, dst>>)
    \/ \E p \in {x \in Grid(b) : Axis(src, x) # "none"} :
           \E q \in {x \in Grid(b) : Axis(x, dst) # "none"} :
               WellFormedPath(<<src, p, q, dst>>) /\ PathClear(b, <<src, p, q, dst>>)

\* Every vertical-horizontal-vertical and horizontal-vertical-horizontal
\* candidate between src and dst whose path is clear, by enumeration of all
\* rows and all columns.
ValidCandidates(b, src, dst) ==
    IF src = dst \/ ~SameKind(b, src, dst) THEN {}
    ELSE {m \in {new_vhv(src, dst, r) : r \in {x \in 0..(b.nrow - 1) : src.c # dst.c}}
                \cup {new_hvh(src, dst, c) : c \in {x \in 0..(b.ncol - 1) : src.r # dst.r}} :
              PathClear(b, m.path)}

\* The results the four searches can return on b, with the endpoints asked
\* for (any pair of interior squares for the whole-board searches).
SearchResults(b) ==
    {<<src, dst, find_move_between(b, src, dst)>> : src \in Grid(b), dst \in Grid(b)}
    \cup {<<src, dst, shortest_move_between(b, src, dst)>> : src \in Grid(b), dst \in Grid(b)}

WholeBoardResults(b) == {find_move(b)} \cup random_move(b)

\* Some sequence of legal moves, each found on the current board and applied
\* with do_move, empties the board.
RECURSIVE Solvable(_)
Solvable(b) ==
    \/ TileCount(b) = 0
    \/ \E src \in Interior(b), dst \in Interior(b) :
           /\ find_move_between(b, src, dst) # None
           /\ Solvable(do_move(b, find_move_between(b, src, dst)[1]))

(***************************************************************************)
(* Properties of Board::random and of play (specification Spec).            *)
(***************************************************************************)
\* C1: every board returned by Board::random is solvable: some sequence of
\* legal moves, each found on the current board and applied with do_move,
\* reaches the board whose interior is all Empty.
C1_RandomBoardSolvable == pc = "ready" => Solvable(this)

\* Board::random returned a full 2 x 3 board.
C1_Witness ==
    /\ pc = "ready"
    /\ args = <<2, 3>>
    /\ TileCount(this) = 6

\* C2 as stated: on any board produced by Board::random the greedy loop
\* (find_move, do_move, until find_move returns none) stops with is_empty().
C2_GreedyAlwaysClears == pc = "greedy_done" => is_empty(this)

\* C2 amended: every step of the greedy loop removes tiles (so the loop
\* terminates), and on a board produced by Board::random for an interior of
\* at most 2 * TILE_KIND_COUNT cells (every kind occurs at most twice) the
\* loop stops with is_empty().
C2_GreedyClearsPairsOnly ==
    /\ [](pc = "greedy_done" /\ args[1] * args[2] <= 2 * TILE_KIND_COUNT
             => is_empty(this))
    /\ [][pc' = "greedy" => TileCount(this') < TileCount(this)]_vars

\* The greedy loop ran to the end on a generated 2 x 2 board and cleared it.
C2_Witness ==
    /\ pc = "greedy_done"
    /\ args = <<2, 2>>
    /\ mv # None
    /\ is_empty(this)

\* The effect of removing the pair joined by m from b.
DoMoveEffect(b, after, m) ==
    /\ after.ncol = b.ncol
    /\ after.nrow = b.nrow
    /\ Len(after.cells) = Len(b.cells)
    /\ m.path[1] # m.path[Len(m.path)]
    /\ HoldsTile(b, m.path[1]) /\ HoldsTile(b, m.path[Len(m.path)])
    /\ ~HoldsTile(after, m.path[1]) /\ ~HoldsTile(after, m.path[Len(m.path)])
    /\ \A sq \in Grid(b) \ {m.path[1], m.path[Len(m.path)]} :
           CellAt(after, sq) = CellAt(b, sq)
    /\ TileCount(after) = TileCount(b) - 2

\* C8: do_move with a move computed on the current board turns exactly its
\* source and destination from Tile to Empty; the tile count drops by two and
\* every other cell and the dimensions are unchanged.
C8_DoMoveRemovesExactlyThePair ==
    [][/\ (pc = "reduce" /\ pc' = "reduce")
           => mv' # None /\ DoMoveEffect(board, board', mv'[1])
       /\ (pc \in {"ready", "greedy"} /\ pc' = "greedy")
           => mv' # None /\ DoMoveEffect(this, this', mv'[1])
       /\ (pc \in {"ready", "playing"} /\ mv' # mv)
           => mv' # None /\ DoMoveEffect(this, this', mv'[1])]_vars

\* A click completed a move on a generated 2 x 3 board; four tiles remain.
C8_Witness ==
    /\ pc = "playing"
    /\ mv # None
    /\ args = <<2, 3>>
    /\ TileCount(this) = 4

\* C9: in every reachable state the outer border ring of the result board
\* and of the working copy is Empty.
C9_BorderAlwaysEmpty ==
    /\ \A sq \in Border(this) : ~HoldsTile(this, sq)
    /\ \A sq \in Border(board) : ~HoldsTile(board, sq)

\* Inside shuffle_solvable's reduce loop, after a move routed over the border
\* ring, with tiles left on both boards.
C9_Witness ==
    /\ pc = "reduce"
    /\ mv # None
    /\ \E i \in 1..Len(mv[1].path) : mv[1].path[i] \in Border(board)
    /\ TileCount(board) > 0
    /\ TileCount(this) = args[1] * args[2]

\* C10: a board returned by Board::random is not stuck.
C10_FreshBoardNotStuck == pc = "ready" => ~is_stuck(this)

\* Board::random returned a non-empty board on which find_move finds a move.
C10_Witness ==
    /\ pc = "ready"
    /\ ~is_empty(this)
    /\ find_move(this) # None

(***************************************************************************)
(* Properties of the move search (specification SpecSearch).                *)
(***************************************************************************)
\* C3: find_move_between(src, dst) returns a move if and only if src # dst,
\* both cells hold tiles of the same kind, and some path inside the grid
\* (border included) of at most three axis-aligned segments joins them over
\* Empty cells only.
C3_MoveIffConnectingPath ==
    pc = "hand" =>
        \A src \in Grid(this), dst \in Grid(this) :
            (find_move_between(this, src, dst) # None)
                <=> (src # dst /\ SameKind(this, src, dst)
                        /\ ConnectingPath(this, src, dst))

\* A search returned a two-bend move, and on the same board another pair of
\* same-kind tiles has no connecting path and no move.
C3_Witness ==
    /\ pc = "searched"
    /\ mv # None
    /\ Len(mv[1].path) = 4
    /\ \E src \in Interior(this), dst \in Interior(this) :
           /\ src # dst
           /\ SameKind(this, src, dst)
           /\ ~ConnectingPath(this, src, dst)
           /\ find_move_between(this, src, dst) = None

\* C4: every cell on the path of a move returned by find_move_between,
\* shortest_move_between, find_move or random_move, other than its source
\* and destination, is Empty on the board searched.
C4_ReturnedPathIsClear ==
    /\ pc = "hand" =>
           /\ \A res \in SearchResults(this) :
                  res[3] # None => PathClear(this, res[3][1].path)
           /\ \A res \in WholeBoardResults(this) :
                  res # None => PathClear(this, res[1].path)
    /\ pc = "searched" /\ mv # None => PathClear(this, mv[1].path)

\* A search returned a move whose path runs over an Empty interior cell.
C4_Witness ==
    /\ pc = "searched"
    /\ mv # None
    /\ \E sq \in PathCells(mv[1].path) \ {mv[1].path[1], mv[1].path[Len(mv[1].path)]} :
           sq \in Interior(this)

\* C5: find_move_between and shortest_move_between return none for every
\* pair of grid squares that are equal, or one of which is Empty, or that
\* hold tiles of different kinds.
C5_RejectedPairs ==
    pc = "hand" =>
        \A a \in Grid(this), b \in Grid(this) :
            (a = b \/ ~HoldsTile(this, a) \/ ~HoldsTile(this, b)
                \/ CellAt(this, a) # CellAt(this, b))
            => /\ find_move_between(this, a, b) = None
               /\ shortest_move_between(this, a, b) = None

\* A search returned none on a board whose only tiles are two adjacent
\* tiles of different kinds.
C5_Witness ==
    /\ pc = "searched"
    /\ mv = None
    /\ TileCount(this) = 2
    /\ \E a \in Interior(this), b \in Interior(this) :
           /\ HoldsTile(this, a) /\ HoldsTile(this, b)
           /\ CellAt(this, a) # CellAt(this, b)
           /\ a.r = b.r /\ b.c = a.c + 1

\* C6: shortest_move_between returns a move exactly when a valid candidate
\* exists, and its path distance is at most that of every valid candidate.
C6_ShortestIsMinimal ==
    pc = "hand" =>
        \A src \in Grid(this), dst \in Grid(this) :
            LET found == shortest_move_between(this, src, dst)
                cands == ValidCandidates(this, src, dst)
            IN  /\ (found # None) <=> (cands # {})
                /\ found # None =>
                       /\ found[1] \in cands
                       /\ \A m \in cands : path_distance(found[1]) <= path_distance(m)

\* A search returned a move strictly shorter than the first move that
\* find_move_between enumerates for the same endpoints.
C6_Witness ==
    /\ pc = "searched"
    /\ mv # None
    /\ mv = shortest_move_between(this, mv[1].path[1], mv[1].path[Len(mv[1].path)])
    /\ path_distance(mv[1])
           < path_distance(find_move_between(this, mv[1].path[1],
                                             mv[1].path[Len(mv[1].path)])[1])

\* The shape of a move from src to dst.
MoveShape(m, src, dst) ==
    /\ Len(m.path) \in 2..4
    /\ move_src(m) = src /\ m.path[1] = src
    /\ move_dst(m) = dst /\ m.path[Len(m.path)] = dst
    /\ \A i \in 1..(Len(m.path) - 1) :
           (m.path[i].c = m.path[i + 1].c) # (m.path[i].r = m.path[i + 1].r)
    /\ Bends(m.path) <= 2

\* C7: the path of every move the search produces has 2 to 4 points, starts
\* at the source, ends at the destination, has consecutive points differing
\* in exactly one axis, and changes direction at most twice.
C7_MoveShape ==
    /\ pc = "hand" =>
           /\ \A res \in SearchResults(this) :
                  res[3] # None => MoveShape(res[3][1], res[1], res[2])
           /\ \A res \in WholeBoardResults(this) :
                  res # None =>
                      \E src \in Interior(this), dst \in Interior(this) :
                          MoveShape(res[1], src, dst)
    /\ pc = "searched" /\ mv # None =>
           MoveShape(mv[1], mv[1].path[1], mv[1].path[Len(mv[1].path)])

\* A search returned a move with a single bend (one of the two corners of
\* the vertical-horizontal-vertical shape collapsed).
C7_Witness ==
    /\ pc = "searched"
    /\ mv # None
    /\ Len(mv[1].path) = 3

\* Some pair of distinct interior squares holds tiles of the same kind joined
\* by a clear path of at most three segments.
LegalPairExists(b) ==
    \E src \in Interior(b), dst \in Interior(b) :
        src # dst /\ SameKind(b, src, dst) /\ ConnectingPath(b, src, dst)

\* The tiles left on b are exactly two, of different kinds.
OneMismatchedPair(b) ==
    /\ TileCount(b) = 2
    /\ \E a \in Interior(b), c \in Interior(b) :
           HoldsTile(b, a) /\ HoldsTile(b, c) /\ CellAt(b, a) # CellAt(b, c)

\* C11: is_stuck() is true exactly when some interior cell holds a tile and
\* no pair of interior squares has a legal move; on a board whose remaining
\* tiles are one pair of different kinds is_stuck() is true and is_empty() is
\* false; is_stuck() and is_empty() are never both true.
C11_StuckIffTilesAndNoMove ==
    pc = "hand" =>
        /\ is_stuck(this)
               <=> ((\E sq \in Interior(this) : HoldsTile(this, sq))
                       /\ ~LegalPairExists(this))
        /\ OneMismatchedPair(this) => is_stuck(this) /\ ~is_empty(this)
        /\ ~(is_stuck(this) /\ is_empty(this))

\* find_move returned none on a board whose remaining tiles are one pair of
\* different kinds: the board is stuck and not empty.
C11_Witness ==
    /\ pc = "searched"
    /\ mv = None
    /\ find_move(this) = None
    /\ OneMismatchedPair(this)
    /\ is_stuck(this)
    /\ ~is_empty(this)

\* The pairs <<a, c>> of horizontally adjacent interior squares (a on the
\* left) that hold the only two tiles of b, both of one kind.
AdjacentPairAlone(b) ==
    {p \in Interior(b) \X Interior(b) :
        /\ p[1].r = p[2].r /\ p[2].c = p[1].c + 1
        /\ SameKind(b, p[1], p[2])
        /\ TileCount(b) = 2}

\* C12 as stated: on a board with a 2 x 2 interior holding exactly two tiles,
\* of the same kind, in horizontally adjacent cells, the move reported by
\* find_move() and by find_move_between for them is the straight path whose
\* points are exactly the two tile coordinates.
C12_FirstMoveIsStraight ==
    pc = "hand" /\ args = <<2, 2>> =>
        \A p \in AdjacentPairAlone(this) :
            /\ find_move_between(this, p[1], p[2]) = Some([path |-> <<p[1], p[2]>>])
            /\ find_move(this) = Some([path |-> <<p[1], p[2]>>])

\* C12 amended: on such a board shortest_move_between reports the straight
\* path whose points are exactly the two tile coordinates (in either order of
\* the arguments); find_move() and find_move_between report a legal move
\* between the two tiles, the first in enumeration order, which is the
\* vertical-horizontal-vertical path over border row 0 (four points).
C12_ShortestIsStraightFirstIsOverBorder ==
    pc = "hand" /\ args = <<2, 2>> =>
        \A p \in AdjacentPairAlone(this) :
            /\ shortest_move_between(this, p[1], p[2]) = Some([path |-> <<p[1], p[2]>>])
            /\ shortest_move_between(this, p[2], p[1]) = Some([path |-> <<p[2], p[1]>>])
            /\ find_move_between(this, p[1], p[2])
                   = Some([path |-> <<p[1], Square(p[1].c, 0), Square(p[2].c, 0), p[2]>>])
            /\ find_move(this) = find_move_between(this, p[1], p[2])
            /\ PathClear(this, find_move(this)[1].path)

\* shortest_move_between returned the straight path on a 2 x 2 board whose
\* only tiles are two adjacent tiles of one kind, where find_move_between
\* returns a path of four points.
C12_Witness ==
    /\ pc = "searched"
    /\ args = <<2, 2>>
    /\ AdjacentPairAlone(this) # {}
    /\ mv # None
    /\ Len(mv[1].path) = 2
    /\ \E p \in AdjacentPairAlone(this) :
           /\ mv = shortest_move_between(this, p[1], p[2])
           /\ Len(find_move_between(this, p[1], p[2])[1].path) = 4

\* The pairs <<a, c>> of same-kind interior tiles of one row with a tile on
\* some cell strictly between them in that row.
BlockedRowPairs(b) ==
    {p \in Interior(b) \X Interior(b) :
        /\ p[1].r = p[2].r /\ p[1].c # p[2].c
        /\ SameKind(b, p[1], p[2])
        /\ \E c \in (Min2(p[1].c, p[2].c) + 1)..(Max2(p[1].c, p[2].c) - 1) :
               HoldsTile(b, Square(c, p[1].r))}

\* Row r lies above the two tiles of p; the cells of both tiles' columns from
\* row r down to the tiles, and the cells of row r between the two columns,
\* are Empty.
RouteAbove(b, p, r) ==
    /\ r \in 0..(p[1].r - 1)
    /\ \A rr \in r..(p[1].r - 1) :
           ~HoldsTile(b, Square(p[1].c, rr)) /\ ~HoldsTile(b, Square(p[2].c, rr))
    /\ \A c \in Min2(p[1].c, p[2].c)..Max2(p[1].c, p[2].c) : ~HoldsTile(b, Square(c, r))

\* C13: for two same-kind tiles of one row with another tile strictly between
\* them in that row, no search returns the straight 2-point path between
\* them; and whenever some row above them (border row 0 included) is Empty
\* between their columns with both columns Empty up to it, find_move_between
\* returns the 4-point path bent through such a row.
C13_BlockedRowRoutesAround ==
    pc = "hand" =>
        \A p \in BlockedRowPairs(this) :
            /\ \A res \in {find_move_between(this, p[1], p[2]),
                           shortest_move_between(this, p[1], p[2])}
                          \cup WholeBoardResults(this) :
                   res # Some([path |-> <<p[1], p[2]>>])
            /\ (\E r \in 0..(p[1].r - 1) : RouteAbove(this, p, r))
                   => \E r \in 0..(p[1].r - 1) :
                          /\ RouteAbove(this, p, r)
                          /\ find_move_between(this, p[1], p[2])
                                 = Some([path |-> <<p[1], Square(p[1].c, r),
                                                    Square(p[2].c, r), p[2]>>])

\* find_move_between returned the path bent through border row 0 for two
\* same-kind tiles of row 2 that have a tile between them; the path crosses
\* interior row 1.
C13_Witness ==
    /\ pc = "searched"
    /\ mv # None
    /\ Len(mv[1].path) = 4
    /\ <<mv[1].path[1], mv[1].path[4]>> \in BlockedRowPairs(this)
    /\ mv = find_move_between(this, mv[1].path[1], mv[1].path[4])
    /\ mv[1].path[1].r = 2
    /\ mv[1].path[2].r = 0
    /\ RouteAbove(this, <<mv[1].path[1], mv[1].path[4]>>, 0)

\* C14: Board::empty and Board::random reject (fatal assertion, no board
\* produced) every pair of inner dimensions that are both odd, and accept
\* every pair in which at least one of the two is even.
C14_OddOddRejected ==
    pc # "start" =>
        /\ pc = "panic" <=> (args[1] % 2 = 1 /\ args[2] % 2 = 1)
        /\ pc = "panic" => this = NoBoard /\ board = NoBoard
        /\ pc # "panic" =>
               /\ this.ncol = args[1] + 2
               /\ this.nrow = args[2] + 2
               /\ Len(this.cells) = (args[1] + 2) * (args[2] + 2)

\* Board::random was called with a 1 x 3 interior and failed the assertion.
C14_Witness ==
    /\ pc = "panic"
    /\ args = <<1, 3>>
    /\ this = NoBoard

\* C15 as stated: reading or writing a board cell by a coordinate outside the
\* allocated grid (column >= ncol or row >= nrow) always ends in a fatal
\* fault: it never reads or modifies a cell of the grid.
C15_OutsideGridFaults ==
    (idx_call # None
        /\ (idx_call[1].sq.c >= this.ncol \/ idx_call[1].sq.r >= this.nrow))
    => pc = "panic"

(***************************************************************************)
(* Properties of the generator's loops (specification Spec).                *)
(***************************************************************************)
\* C16 as stated: board generation always runs to completion.  A program
\* that always terminates never returns to a state it has been in; here: no
\* pass of the outer loop shuffles the working copy into the arrangement it
\* already had, with no legal move on it (the reduce loop then exits at once
\* and the outer loop is back in the very same state).
C16_NoPassRepeatsAState ==
    [][~(/\ pc = "outer" /\ pc' = "reduce"
         /\ board' = board /\ this' = this
         /\ random_move(board') = {None})]_vars

\* C16 amended: every step of the inner reduce loop removes a pair (so each
\* reduce loop terminates); an outer pass never adds tiles to the working
\* copy; at every outer pass some outcome of the shuffle leaves a legal move
\* (so each pass makes progress with positive probability and generation
\* completes with probability 1); and Board::random returns only with the
\* working copy empty.
C16_TerminatesWithProbabilityOne ==
    /\ [][pc = "reduce" /\ pc' = "reduce"
             => TileCount(board') = TileCount(board) - 2]_vars
    /\ [][(pc = "outer" \/ pc = "reduce") => TileCount(board') <= TileCount(board)]_vars
    /\ [](pc = "outer" /\ ~is_empty(board)
             => \E p \in Perms(Len(enumerate_tiles(board))) :
                    random_move(shuffle(board, p)) # {None})
    /\ [](pc = "ready" => is_empty(board))

\* Board::random returned a full 3 x 2 board, its working copy emptied by the
\* reduce loop.
C16_Witness ==
    /\ pc = "ready"
    /\ args = <<3, 2>>
    /\ mv # None
    /\ is_empty(board)
    /\ TileCount(this) = 6

\* The number of cells of b that hold a tile of kind k.
KindCount(b, k) == Cardinality({sq \in Grid(b) : CellAt(b, sq) = <<"Tile", k>>})

\* C17: after Board::random on an interior of n cells with K kinds
\* (q = n div 2K, r = n mod 2K) every interior cell holds a tile of a kind
\* below K, every kind occurs an even number of times, either 2q or 2q + 2
\* times, and exactly r / 2 kinds occur 2q + 2 times; the tile total is n.
\* This holds of the result board from the fill on, through every pass of
\* shuffle_solvable, to the return.
C17_KindCounts ==
    pc \in {"outer", "reduce", "ready"} =>
        LET n == args[1] * args[2]
            q == n \div (2 * TILE_KIND_COUNT)
            r == n % (2 * TILE_KIND_COUNT)
            Kinds == 0..(TILE_KIND_COUNT - 1)
        IN  /\ \A sq \in Interior(this) :
                   \E k \in Kinds : CellAt(this, sq) = <<"Tile", k>>
            /\ \A k \in Kinds :
                   /\ KindCount(this, k) % 2 = 0
                   /\ KindCount(this, k) \in {2 * q, 2 * q + 2}
            /\ Cardinality({k \in Kinds : KindCount(this, k) = 2 * q + 2}) = r \div 2
            /\ TileCount(this) = n

\* Board::random returned a board of six cells on which one kind occurs four
\* times and another twice.
C17_Witness ==
    /\ pc = "ready"
    /\ args[1] * args[2] = 6
    /\ \E k1, k2 \in 0..(TILE_KIND_COUNT - 1) :
           KindCount(this, k1) = 4 /\ KindCount(this, k2) = 2

\* C18 as stated: every pass of shuffle_solvable's outer loop removes at
\* least one pair from the working copy.  The shuffle keeps the number of
\* tiles and the reduce loop removes pairs as long as random_move finds one,
\* so a pass removes a pair exactly when a legal move exists right after its
\* shuffle.
C18_EveryPassRemovesAPair ==
    [][pc = "outer" /\ pc' = "reduce" => random_move(board') # {None}]_vars

\* C18 amended: a pass of the outer loop never adds tiles to the working
\* copy: its shuffle keeps the number of tiles, every reduce step removes
\* exactly one pair, and the reduce loop is left only when no legal move
\* remains, without touching the working copy.  The pass removes at least one
\* pair exactly when the shuffled arrangement has a legal move; otherwise the
\* tile count at its end equals the count at its start.
C18_PassNeverAddsTiles ==
    /\ [][pc = "outer" /\ pc' = "reduce"
             => TileCount(board') = TileCount(board)]_vars
    /\ [][pc = "reduce" /\ pc' = "reduce"
             => /\ random_move(board) # {None}
                /\ TileCount(board') = TileCount(board) - 2]_vars
    /\ [][pc = "reduce" /\ pc' = "outer"
             => /\ random_move(board) = {None}
                /\ board' = board]_vars

\* An outer pass ended after removing pairs, with tiles left on the working
\* copy for a further pass.
C18_Witness ==
    /\ pc = "outer"
    /\ mv # None
    /\ TileCount(board) > 0
    /\ TileCount(board) < TileCount(this)
    /\ random_move(board) = {None}

\* m joins two distinct tiles of one kind of b by a path over Empty cells.
LegalOn(b, m) ==
    /\ m.path[1] # m.path[Len(m.path)]
    /\ SameKind(b, m.path[1], m.path[Len(m.path)])
    /\ PathClear(b, m.path)

\* Every move of ms, applied in order from b, is legal on the board it is
\* applied to.
RECURSIVE ReplayLegal(_, _)
ReplayLegal(b, ms) ==
    \/ ms = <<>>
    \/ /\ LegalOn(b, Head(ms))
       /\ ReplayLegal(do_move(b, Head(ms)), Tail(ms))

\* The board left by applying the moves of ms in order from b.
RECURSIVE Replay(_, _)
Replay(b, ms) == IF ms = <<>> THEN b ELSE Replay(do_move(b, Head(ms)), Tail(ms))

\* C19: when shuffle_solvable finishes, replaying on the result board, in the
\* same order, every move that was applied to the working copy during
\* generation (across all outer passes) is legal at each step and leaves the
\* result board empty.
C19_ReplayClearsResult ==
    pc = "ready" =>
        /\ ReplayLegal(this, applied)
        /\ TileCount(Replay(this, applied)) = 0

\* shuffle_solvable finished on a board of six cells with three recorded
\* moves, the last of which is not legal on the full result board: it becomes
\* legal only once the earlier ones are replayed.
C19_Witness ==
    /\ pc = "ready"
    /\ Len(applied) = 3
    /\ TileCount(this) = 6
    /\ ~LegalOn(this, applied[3])

\* before and after have the same dimensions, the same set of cells holding
\* a tile and the same number of tiles of every kind.
SamePlacesAndKinds(before, after) ==
    /\ after.ncol = before.ncol /\ after.nrow = before.nrow
    /\ Len(after.cells) = Len(before.cells)
    /\ \A sq \in Grid(before) : HoldsTile(after, sq) <=> HoldsTile(before, sq)
    /\ \A k \in 0..(TILE_KIND_COUNT - 1) : KindCount(after, k) = KindCount(before, k)

\* C20: each shuffle step of shuffle_solvable only permutes kinds among the
\* occupied cells of the working copy, and its commit does the same to the
\* board shuffle_solvable was called on: the set of cells holding a tile and
\* the multiset of kinds are the same before and after, Empty cells stay
\* Empty; no other step of shuffle_solvable touches that board.
C20_ShuffleOnlyPermutes ==
    [][/\ (pc = "outer" /\ pc' = "reduce")
           => /\ SamePlacesAndKinds(board, board')
              /\ SamePlacesAndKinds(this, this')
       /\ ((pc = "outer" /\ pc' = "ready") \/ pc = "reduce")
           => this' = this]_vars

\* Inside shuffle_solvable's reduce loop with the working copy partly
\* emptied and holding an arrangement with a legal move, while the result
\* board is full.
C20_Witness ==
    /\ pc = "reduce"
    /\ applied # <<>>
    /\ TileCount(board) = 4
    /\ TileCount(this) = 6
    /\ random_move(board) # {None}
    /\ \E sq \in Interior(board) : ~HoldsTile(board, sq)

\* The moves find_move_between's enumeration yields for the endpoints of m.
EnumeratedFor(b, m) ==
    LET ms == moves_between(b, m.path[1], m.path[Len(m.path)])
    IN  {ms[i] : i \in 1..Len(ms)}

\* C21: find_move() returns a move if and only if some pair of interior
\* squares, in either order, has a legal move (find_move_between non-none,
\* that is: two tiles of one kind joined by a clear path of at most three
\* segments); random_move() returns none exactly when find_move() does; and
\* any move either returns is one that find_move_between's enumeration
\* yields for its own endpoints, two interior squares, on the current board.
C21_WholeBoardSearchSoundComplete ==
    pc = "hand" =>
        /\ (find_move(this) # None) <=> LegalPairExists(this)
        /\ (find_move(this) # None)
               <=> \E a \in Interior(this), c \in Interior(this) :
                       find_move_between(this, a, c) # None
        /\ (None \in random_move(this)) <=> (find_move(this) = None)
        /\ (None \in random_move(this)) => random_move(this) = {None}
        /\ \A res \in WholeBoardResults(this) :
               res # None =>
                   /\ res[1].path[1] \in Interior(this)
                   /\ res[1].path[Len(res[1].path)] \in Interior(this)
                   /\ res[1] \in EnumeratedFor(this, res[1])
                   /\ LegalOn(this, res[1])

\* random_move returned a move other than the one find_move returns on the
\* same board.
C21_Witness ==
    /\ pc = "searched"
    /\ mv # None
    /\ mv \in random_move(this)
    /\ find_move(this) # None
    /\ mv # find_move(this)
    /\ mv[1].path[1] # find_move(this)[1].path[1]

(***************************************************************************)
(* C22.  Every step of the application obeys the transition rules of the   *)
(* Playing / Win / Stuck machine.  A click that completes a legal move in   *)
(* Playing (the board changes and no new board is being generated) leaves   *)
(* the model in Win iff the board is now empty, in Stuck iff tiles remain   *)
(* and no legal pair exists, and in Playing otherwise.  Win and Stuck are   *)
(* entered by no other step.  A step that leaves Win or Stuck is Restart    *)
(* (a new board is generated for Playing, ModelInit is registered) or ends  *)
(* the program; Playing is entered only at the end of a generation.         *)
(***************************************************************************)
ClickMoved == ModelOf(pc) = "Playing" /\ pc' # "start" /\ this' # this

C22_WinStuckOnlyAfterMove ==
    [][ /\ ClickMoved =>
             /\ TileCount(this') = TileCount(this) - 2
             /\ (ModelOf(pc') = "Win") <=> (TileCount(this') = 0)
             /\ (ModelOf(pc') = "Stuck")
                    <=> (TileCount(this') > 0 /\ ~LegalPairExists(this'))
             /\ (ModelOf(pc') = "Playing")
                    <=> (TileCount(this') > 0 /\ LegalPairExists(this'))
        /\ (ModelOf(pc') \in {"Win", "Stuck"} /\ ModelOf(pc') # ModelOf(pc))
               => ClickMoved
        /\ (ModelOf(pc) \in {"Win", "Stuck"} /\ pc' # pc)
               => \/ /\ pc' = "start"
                     /\ "Restart" \in deliverable
                     /\ "ModelInit" \in ui'.pending
                  \/ pc' = "unexpected"
        /\ (ModelOf(pc') = "Playing" /\ ModelOf(pc) # "Playing")
               => pc = "outer" /\ pc' = "ready"
      ]_vars

\* A click has just completed a move that left tiles without a legal pair:
\* the model is Stuck while the Playing view is still on screen.
C22_Witness ==
    /\ pc = "stuck"
    /\ ui.view = "Playing"
    /\ mv # None
    /\ sq_select = None
    /\ TileCount(this) > 0
    /\ ~LegalPairExists(this)
    /\ "ModelInit" \in ui.pending

(***************************************************************************)
(* C23.  In the build where every kind occurs at most twice (interior of    *)
(* at most 2 * TILE_KIND_COUNT cells; within the bounds up to three         *)
(* different pairs), in every state of play on a board Board::random made   *)
(* (the player's clicks choosing any pairs in any order, or the greedy      *)
(* loop): no kind occurs more than twice, the model is never Stuck,         *)
(* is_stuck() is false, and a board that still holds tiles still has a      *)
(* legal pair; so play can only stop at the empty board.                    *)
(***************************************************************************)
C23_PairsOnlyNeverStuck ==
    (/\ args[1] * args[2] <= 2 * PAIRS_TILE_KIND_COUNT
     /\ pc \in {"ready", "playing", "win", "stuck", "greedy", "greedy_done"})
        => /\ \A k \in 0..(PAIRS_TILE_KIND_COUNT - 1) : KindCount(this, k) \in {0, 2}
           /\ pc # "stuck"
           /\ ~is_stuck(this)
           /\ TileCount(this) > 0 => LegalPairExists(this)
           /\ pc = "greedy_done" => TileCount(this) = 0

\* The same-kind pairs of b that a clear path of at most three segments
\* joins.
LegalPairs(b) ==
    {p \in Interior(b) \X Interior(b) :
        p[1] # p[2] /\ SameKind(b, p[1], p[2]) /\ ConnectingPath(b, p[1], p[2])}

\* Play on a board of three different pairs where the player's choice
\* matters: on the board Board::random returned (the board before the
\* move, with the removed pair of the third kind back in place) two pairs
\* of different kinds were legal and the third could not be joined; a click
\* has removed one of the legal pairs, and two pairs are left.
C23_Witness ==
    /\ args[1] * args[2] = 6
    /\ pc = "playing"
    /\ mv # None
    /\ TileCount(this) = 4
    /\ \E k1, k2 \in 0..(PAIRS_TILE_KIND_COUNT - 1) :
           k1 # k2 /\ KindCount(this, k1) = 2 /\ KindCount(this, k2) = 2
    /\ ~is_stuck(this)
    /\ \E k \in 0..(PAIRS_TILE_KIND_COUNT - 1) :
           LET c == move_src(mv[1])
               d == move_dst(mv[1])
               before == index_mut(index_mut(this, c, Tile(k)), d, Tile(k))
           IN  /\ KindCount(this, k) = 0
               /\ shortest_move_between(before, c, d) = mv
               /\ \E p \in LegalPairs(before) : {p[1], p[2]} \cap {c, d} = {}
               /\ \E a \in Interior(before), b \in Interior(before) :
                      /\ a # b
                      /\ SameKind(before, a, b)
                      /\ ~ConnectingPath(before, a, b)

(***************************************************************************)
(* C24.  Removing a pair never makes another pair illegal.  Whenever        *)
(* do_move applies a move between c and d, every pair of squares a, b       *)
(* other than c and d for which find_move_between returned a move before    *)
(* still gets one after, and the path distance of shortest_move_between     *)
(* for a, b has not increased.                                              *)
(***************************************************************************)
C24_RemovalKeepsPairsLegal ==
    [][ (pc = "searched" /\ pc' = "moved") =>
            \A a \in Interior(this), b \in Interior(this) :
                (/\ {a, b} \cap {move_src(mv[1]), move_dst(mv[1])} = {}
                 /\ find_move_between(this, a, b) # None)
                    => /\ find_move_between(this', a, b) # None
                       /\ shortest_move_between(this', a, b) # None
                       /\ path_distance(shortest_move_between(this', a, b)[1])
                              <= path_distance(shortest_move_between(this, a, b)[1])
      ]_vars

\* do_move has removed the pair mv joins, and another pair that could be
\* joined before (with the removed tiles of kind k back in place) is now
\* joined by a strictly shorter path.
C24_Witness ==
    /\ pc = "moved"
    /\ mv # None
    /\ \E k \in HandKinds :
           LET c == move_src(mv[1])
               d == move_dst(mv[1])
               before == index_mut(index_mut(this, c, Tile(k)), d, Tile(k))
           IN  /\ find_move_between(before, c, d) = mv
               /\ do_move(before, mv[1]) = this
               /\ \E a \in Interior(this), b \in Interior(this) :
                      /\ {a, b} \cap {c, d} = {}
                      /\ find_move_between(before, a, b) # None
                      /\ path_distance(shortest_move_between(this, a, b)[1])
                             < path_distance(shortest_move_between(before, a, b)[1])

(***************************************************************************)
(* C25.  Move search is symmetric in its endpoints.  On every board, for    *)
(* all squares a, b of the grid: find_move_between(a, b) returns a move     *)
(* iff find_move_between(b, a) does; shortest_move_between returns a move   *)
(* for both orders or for neither, of the same path distance; and do_move   *)
(* of either result leaves the same board, so a two-click selection does    *)
(* not depend on which tile was clicked first.                              *)
(***************************************************************************)
C25_SearchSymmetric ==
    pc = "hand" =>
        \A a \in Grid(this), b \in Grid(this) :
            LET ab == shortest_move_between(this, a, b)
                ba == shortest_move_between(this, b, a)
            IN  /\ (find_move_between(this, a, b) # None)
                       <=> (find_move_between(this, b, a) # None)
                /\ (ab # None) <=> (ba # None)
                /\ ab # None =>
                       /\ path_distance(ab[1]) = path_distance(ba[1])
                       /\ do_move(this, ab[1]) = do_move(this, ba[1])

\* shortest_move_between returned a path with two corners from one tile to
\* another; the search in the other order returns a move of the same
\* distance that starts where this one ends.
C25_Witness ==
    /\ pc = "searched"
    /\ mv # None
    /\ Len(mv[1].path) = 4
    /\ mv = shortest_move_between(this, move_src(mv[1]), move_dst(mv[1]))
    /\ LET ba == shortest_move_between(this, move_dst(mv[1]), move_src(mv[1]))
       IN  /\ ba # None
           /\ move_src(ba[1]) = move_dst(mv[1])
           /\ move_dst(ba[1]) = move_src(mv[1])
           /\ path_distance(ba[1]) = path_distance(mv[1])

(***************************************************************************)
(* Properties of message delivery (specification SpecUI).                   *)
(***************************************************************************)
\* C26 as stated: no interleaving of the asset load, the timer, the
\* after-render messages, Restart clicks and canvas clicks passes update a
\* message the current variant of Model has no arm for: the "unexpected
\* message" panic is never reached.
C26_NoUnexpectedMessage == pc # "unexpected" /\ ui.unexpected = None

\* What does hold: the only message that reaches the panic is a canvas
\* click, passed to Win or Stuck while the Playing view is still on screen.
UnexpectedOnlyCanvasClick ==
    ui.unexpected # None =>
        /\ ui.unexpected[1].msg = "CanvasClick"
        /\ ui.unexpected[1].model \in {"Win", "Stuck"}
        /\ ui.view = "Playing"

====
